---- MODULE Spec2Model ----
(***************************************************************************)
(* Sprite animation composition of korangar: Frame::merge_frame, the       *)
(* normalisation done by AnimationLoader::load, the AnimationLoader cache  *)
(* (get / load) and AnimationData::render.                                 *)
(*                                                                         *)
(* Conventions.  Vector2 values are pairs <<x, y>>.  Option values are     *)
(* sequences: None is <<>> and Some(v) is <<v>>.  f32 values are exact     *)
(* rationals <<numerator, denominator>>.  Indices stored in fields         *)
(* (animation_index, sprite_number, action) are 0-based as in the source;  *)
(* sequences are 1-based, so an index i reads element i + 1.              *)
(***************************************************************************)
EXTENDS Integers, Sequences, FiniteSets, TLC

VARIABLES cache, loaded, last, mFrames, mGiven, mResult, nResult,
          lIn, lOut, cIn, cOut

vars == <<cache, loaded, last, mFrames, mGiven, mResult, nResult,
         lIn, lOut, cIn, cOut>>

loaderVars == <<cache, loaded, last>>

mergeVars == <<mFrames, mGiven, mResult, nResult>>

clipVars == <<lIn, lOut>>

coordVars == <<cIn, cOut>>

(***************************************************************************)
(* Bounds of the model.                                                    *)
(***************************************************************************)
MaxFrames == 2

MaxSize == 2

MaxOff == 1

MaxTicks == 2

TimeUnit == 25

MaxAction == 1

MaxHead == 1

\* clips of the motion a composed load is run on
MaxClips == 2

\* motions without clips before that motion
MaxLead == 1

\* the largest pair index that motion is placed at
MaxPair == 2

\* the largest width and height convert_coordinate is applied to
MaxDim == 4

(***************************************************************************)
(* Program constants.                                                      *)
(***************************************************************************)
\* usize::MAX, the sentinel index; TLC's largest integer stands for it.
USIZE_MAX == 2147483647

\* i32::MAX
I32_MAX == 2147483647

\* the number of view directions
Directions == 8

\* the key offset of player entities
PlayerKeyBase == 30000

\* 2^16: a u32 is held as two limbs of 16 bits where its value or a product
\* of it is beyond the integers of the checker
U16 == 65536

(***************************************************************************)
(* Arithmetic helpers.                                                     *)
(***************************************************************************)
Min2(a, b) == IF a <= b THEN a ELSE b

Max2(a, b) == IF a >= b THEN a ELSE b

SetMin(S) == CHOOSE m \in S : \A n \in S : m <= n

SetMax(S) == CHOOSE m \in S : \A n \in S : m >= n

\* i32 division of Rust: truncation toward zero
TruncDiv(a, b) == IF a >= 0 THEN a \div b ELSE -((-a) \div b)

VAdd(u, v) == <<u[1] + v[1], u[2] + v[2]>>

VSub(u, v) == <<u[1] - v[1], u[2] - v[2]>>

VDiv(u, k) == <<TruncDiv(u[1], k), TruncDiv(u[2], k)>>

RECURSIVE Gcd(_, _)
Gcd(a, b) == IF b = 0 THEN a ELSE Gcd(b, a % b)

Abs(a) == IF a >= 0 THEN a ELSE -a

\* the rational n / d (d > 0) in lowest terms
Rat(n, d) ==
    LET g == Gcd(Abs(n), d)
    IN  IF n = 0 THEN <<0, 1>> ELSE <<n \div g, d \div g>>

RatZero == <<0, 1>>

RECURSIVE Flatten(_)
Flatten(ss) == IF ss = <<>> THEN <<>> ELSE Head(ss) \o Flatten(Tail(ss))

(***************************************************************************)
(* Color, FramePart, Frame.                                                *)
(***************************************************************************)
\* Color::default(): channels are numerators over 255
ColorDefault == [red |-> 0, green |-> 0, blue |-> 0, alpha |-> 0]

FramePartDefault ==
    [animation_index |-> USIZE_MAX, sprite_number |-> USIZE_MAX,
     offset |-> <<0, 0>>, size |-> <<0, 0>>, mirror |-> FALSE,
     angle |-> RatZero, color |-> ColorDefault,
     texture_top_left |-> <<RatZero, RatZero>>,
     texture_bottom_left |-> <<RatZero, RatZero>>,
     texture_top_right |-> <<RatZero, RatZero>>,
     texture_bottom_right |-> <<RatZero, RatZero>>]

\* the frame merge_frame returns for an empty slice
PlaceholderFrame ==
    [size |-> <<1, 1>>, top_left |-> <<0, 0>>, offset |-> <<0, 0>>,
     remove_offset |-> <<0, 0>>,
     frameparts |-> << [FramePartDefault EXCEPT !.size = <<1, 1>>] >>]

WithTopLeftAtOffset(frames) ==
    [i \in 1..Len(frames) |-> [frames[i] EXCEPT !.top_left = frames[i].offset]]

\* the first loop of merge_frame: every frame of the slice gets its top_left
WithTopLeft(frames) ==
    [i \in 1..Len(frames) |->
        [frames[i] EXCEPT
            !.top_left = VSub(frames[i].offset, VDiv(VSub(frames[i].size, <<1, 1>>), 2))]]

MergeFirstCorner(frames) ==
    LET fs == WithTopLeft(frames)
    IN  <<fs[1].top_left[1], fs[1].top_left[2]>>

MergeReversed(frames) ==
    Flatten([i \in 1..Len(frames) |-> frames[Len(frames) + 1 - i].frameparts])

\* the leftmost and upmost coordinates of the slice
MergeCorner(frames) ==
    LET fs == WithTopLeft(frames)
    IN  <<SetMin({fs[i].top_left[1] : i \in 1..Len(fs)}),
          SetMin({fs[i].top_left[2] : i \in 1..Len(fs)})>>

MergeFarCornerOfOffsets(frames) ==
    <<SetMax({frames[i].offset[1] + frames[i].size[1] : i \in 1..Len(frames)}),
      SetMax({frames[i].offset[2] + frames[i].size[2] : i \in 1..Len(frames)})>>

\* the rightmost and downmost coordinates of the slice
MergeFarCorner(frames) ==
    LET fs == WithTopLeft(frames)
    IN  <<SetMax({fs[i].top_left[1] + fs[i].size[1] : i \in 1..Len(fs)}),
          SetMax({fs[i].top_left[2] + fs[i].size[2] : i \in 1..Len(fs)})>>

\* the parts appended to new_frameparts, frame after frame
MergeParts(frames) ==
    Flatten([i \in 1..Len(frames) |-> frames[i].frameparts])

MergeNoPlaceholder(frames) ==
    [size |-> <<0, 0>>, top_left |-> <<0, 0>>, offset |-> <<0, 0>>,
     remove_offset |-> <<0, 0>>, frameparts |-> <<>>]

MergeEmpty(frames) == PlaceholderFrame

merge_frame(frames) ==
    IF Len(frames) = 0
    THEN MergeEmpty(frames)
    ELSE LET corner == MergeCorner(frames)
             new_size == VSub(MergeFarCorner(frames), corner)
         IN  [size |-> new_size,
              top_left |-> <<0, 0>>,
              offset |-> <<corner[1] + TruncDiv(new_size[1] - 1, 2),
                           corner[2] + TruncDiv(new_size[2] - 1, 2)>>,
              remove_offset |-> <<0, 0>>,
              frameparts |-> MergeParts(frames)]

\* the slice as merge_frame leaves it: top_left set, the part lists moved out
merge_frame_slice(frames) ==
    LET fs == WithTopLeft(frames)
    IN  [i \in 1..Len(fs) |-> [fs[i] EXCEPT !.frameparts = <<>>]]

(***************************************************************************)
(* The assets the sprite and action loaders resolve: per file, the texture *)
(* sizes of the sprite (palette images first) and the action table.        *)
(***************************************************************************)
Clip(sprite_number, position) ==
    [sprite_number |-> sprite_number, position |-> position,
     zoom |-> <<>>, zoom2 |-> <<>>, angle |-> <<>>, color |-> <<>>,
     mirror_on |-> 0, sprite_type |-> <<>>]

\* a motion with its clips and no attach point
Motion(clips) ==
    [sprite_clip_count |-> Len(clips), sprite_clips |-> clips,
     attach_point_count |-> <<>>, attach_points |-> <<>>]

\* a motion with its clips and one attach point
MotionAt(clips, attach) ==
    [sprite_clip_count |-> Len(clips), sprite_clips |-> clips,
     attach_point_count |-> <<1>>, attach_points |-> << [position |-> attach] >>]

BodyAsset ==
    [textures |-> << <<4, 6>>, <<2, 2>> >>,
     palette_size |-> 2,
     actions |-> <<
        [motions |-> <<
            MotionAt(<< Clip(0, <<0, 0>>) >>, <<0, -3>>),
            MotionAt(<< Clip(0, <<1, 0>>), Clip(1, <<3, 1>>) >>, <<1, -3>>),
            MotionAt(<< Clip(1, <<0, 2>>) >>, <<0, -2>>) >>],
        [motions |-> <<
            MotionAt(<< Clip(0, <<0, 0>>),
                        [Clip(1, <<3, 1>>) EXCEPT !.mirror_on = 1] >>, <<0, -2>>),
            MotionAt(<< Clip(0, <<-1, 1>>) >>, <<-1, -2>>) >>] >>,
     delays |-> << 1, 2 >>]

HeadAsset ==
    [textures |-> << <<2, 2>>, <<3, 2>> >>,
     palette_size |-> 1,
     actions |-> <<
        [motions |-> <<
            MotionAt(<< Clip(0, <<0, -4>>) >>, <<0, 1>>),
            MotionAt(<< Clip(1, <<0, -4>>) >>, <<1, 1>>),
            MotionAt(<< Clip(0, <<1, -4>>) >>, <<0, 2>>) >>],
        [motions |-> <<
            MotionAt(<< Clip(0, <<0, -4>>) >>, <<0, 1>>),
            MotionAt(<< Clip(1, <<0, -3>>) >>, <<0, 1>>) >>] >>,
     delays |-> << 2, 1 >>]

\* a monster: a zoomed clip, a motion without clips, a motion whose only
\* clip has no image, and an action whose offsets are all negative
MobAsset ==
    [textures |-> << <<3, 3>>, <<1, 1>> >>,
     palette_size |-> 2,
     actions |-> <<
        [motions |-> <<
            Motion(<< Clip(0, <<0, 0>>),
                      [Clip(0, <<2, -1>>) EXCEPT !.zoom = << <<1, 2>> >>] >>),
            Motion(<< >>),
            Motion(<< Clip(-1, <<0, 0>>) >>) >>],
        [motions |-> <<
            Motion(<< Clip(0, <<-5, -2>>) >>),
            Motion(<< Clip(1, <<-3, -1>>), Clip(-1, <<9, 9>>) >>) >>] >>,
     delays |-> << 1, 1 >>]

\* an npc: one motion with a tinted, rotated, stretched clip; its second
\* action has no motion
NpcAsset ==
    [textures |-> << <<2, 3>> >>,
     palette_size |-> 1,
     actions |-> <<
        [motions |-> <<
            Motion(<< [Clip(0, <<1, 1>>) EXCEPT
                          !.zoom2 = << << <<2, 1>>, <<3, 2>> >> >>,
                          !.angle = << 90 >>,
                          !.color = << 16711935 >>] >>),
            Motion(<< Clip(0, <<0, 0>>) >>) >>],
        [motions |-> << >>] >>,
     delays |-> << 2, 1 >>]

\* an action file without actions
VoidAsset ==
    [textures |-> << <<1, 1>> >>,
     palette_size |-> 1,
     actions |-> << >>,
     delays |-> << >>]

Assets(file) ==
    CASE file = "body" -> BodyAsset
      [] file = "head" -> HeadAsset
      [] file = "mob" -> MobAsset
      [] file = "npc" -> NpcAsset
      [] file = "void" -> VoidAsset

\* the files the game file loader finds
GameFiles == {"body", "head", "mob", "npc", "void"}

\* the first file of the entity whose sprite the sprite loader cannot read:
\* its get returns Err(LoadError::File); 0 when every file is found
FirstMissing(entity_filename) ==
    IF \A i \in 1..Len(entity_filename) : entity_filename[i] \in GameFiles
    THEN 0
    ELSE SetMin({i \in 1..Len(entity_filename) : entity_filename[i] \notin GameFiles})

\* a result of the sprite or the action loader is an error
LoaderFails(entity_filename) == FirstMissing(entity_filename) # 0

\* the calls load makes to the two loaders: two per file, up to the call
\* whose result cannot be unwrapped
LoaderCalls(entity_filename) ==
    IF LoaderFails(entity_filename)
    THEN 2 * (FirstMissing(entity_filename) - 1) + 1
    ELSE 2 * Len(entity_filename)

(***************************************************************************)
(* AnimationLoader::load.                                                  *)
(***************************************************************************)
\* the tint of a clip: alpha<<24 | blue<<16 | green<<8 | red, over 255
ClipColor(clip) ==
    IF clip.color = <<>>
    THEN [red |-> 0, green |-> 0, blue |-> 0, alpha |-> 0]
    ELSE LET c == clip.color[1]
         IN  [red |-> c % 256,
              green |-> (c \div 256) % 256,
              blue |-> (c \div 65536) % 256,
              alpha |-> (c \div 16777216) % 256]

\* the zoom of a clip: zoom, else zoom2, else (1.0, 1.0)
ClipZoom(clip) ==
    IF clip.zoom # <<>> THEN <<clip.zoom[1], clip.zoom[1]>>
    ELSE IF clip.zoom2 # <<>> THEN clip.zoom2[1]
    ELSE << <<1, 1>>, <<1, 1>> >>

\* the displayed size of a clip: the texture size, scaled and floored
ClipSize(texture_size, clip) ==
    LET zoom == ClipZoom(clip)
    IN  IF zoom[1][1] # zoom[1][2] \/ zoom[2][1] # zoom[2][2]
        THEN <<(texture_size[1] * zoom[1][1]) \div zoom[1][2],
               (texture_size[2] * zoom[2][1]) \div zoom[2][2]>>
        ELSE texture_size

\* the rotation of a clip in radians, as a fraction of 2 * PI
ClipAngle(clip) ==
    IF clip.angle = <<>> THEN RatZero ELSE Rat(clip.angle[1], 360)

has_attach_point(motion) ==
    IF motion.attach_point_count = <<>> THEN FALSE
    ELSE motion.attach_point_count[1] = 1

AttachAppliesAnyHead(entity_type, motion, animation_index) ==
    entity_type = "Player" /\ has_attach_point(motion) /\ animation_index >= 1

\* whether the head of a player is moved to the attach point of the body
AttachApplies(entity_type, motion, animation_index) ==
    entity_type = "Player" /\ has_attach_point(motion) /\ animation_index = 1

\* the reads of the attach point resolution that are out of range
AttachPanics(pairs, action_index, motion_index, motion) ==
    LET parent == pairs[1].actions
    IN  \/ action_index >= Len(parent)
        \/ motion_index >= Len(parent[action_index + 1].motions)
        \/ Len(parent[action_index + 1].motions[motion_index + 1].attach_points) = 0
        \/ Len(motion.attach_points) = 0

\* the placement of a clip
ClipOffset(pairs, entity_type, animation_index, action_index, motion_index, motion, clip) ==
    IF AttachApplies(entity_type, motion, animation_index)
    THEN LET parent_motion == pairs[1].actions[action_index + 1].motions[motion_index + 1]
             parent_attach_point == parent_motion.attach_points[1].position
             attach_point == motion.attach_points[1].position
         IN  VAdd(clip.position, VSub(parent_attach_point, attach_point))
    ELSE clip.position

\* the frame of one clip: one part and a frame of the same geometry
ClipFrame(pairs, entity_type, animation_index, action_index, motion_index, motion, clip) ==
    LET size == ClipSize(pairs[animation_index + 1].textures[clip.sprite_number + 1], clip)
        offset == ClipOffset(pairs, entity_type, animation_index, action_index,
                             motion_index, motion, clip)
        frame_part ==
            [FramePartDefault EXCEPT
                !.animation_index = animation_index,
                !.sprite_number = clip.sprite_number,
                !.size = size,
                !.offset = offset,
                !.mirror = (clip.mirror_on # 0),
                !.angle = ClipAngle(clip),
                !.color = ClipColor(clip)]
    IN  [size |-> size, top_left |-> <<0, 0>>, offset |-> offset,
         remove_offset |-> <<0, 0>>, frameparts |-> << frame_part >>]

MotionClipFramesKeepAll(pairs, entity_type, animation_index, action_index, motion_index, motion) ==
    [c \in 1..Len(motion.sprite_clips) |->
        IF motion.sprite_clips[c].sprite_number = -1
        THEN [size |-> <<0, 0>>, top_left |-> <<0, 0>>,
              offset |-> motion.sprite_clips[c].position,
              remove_offset |-> <<0, 0>>, frameparts |-> <<>>]
        ELSE ClipFrame(pairs, entity_type, animation_index, action_index,
                       motion_index, motion, motion.sprite_clips[c])]

\* motion_frames: the frames of the clips of a motion that have an image
MotionClipFrames(pairs, entity_type, animation_index, action_index, motion_index, motion) ==
    Flatten([c \in 1..Len(motion.sprite_clips) |->
        IF motion.sprite_clips[c].sprite_number = -1
        THEN <<>>
        ELSE << ClipFrame(pairs, entity_type, animation_index, action_index,
                          motion_index, motion, motion.sprite_clips[c]) >>])

MotionFramesShortcutAtOrigin(pairs, entity_type, animation_index, action_index, motion_index, motion) ==
    IF motion.sprite_clip_count = 0
    THEN <<>>
    ELSE LET motion_frames == MotionClipFrames(pairs, entity_type, animation_index,
                                               action_index, motion_index, motion)
         IN  IF Len(motion_frames) = 1
             THEN << [motion_frames[1] EXCEPT !.offset = <<0, 0>>] >>
             ELSE << merge_frame(motion_frames) >>

\* what a motion adds to action_frames: nothing when it has no clip, else
\* its single frame or the merge of its frames
MotionFrames(pairs, entity_type, animation_index, action_index, motion_index, motion) ==
    IF motion.sprite_clip_count = 0
    THEN <<>>
    ELSE LET motion_frames == MotionClipFrames(pairs, entity_type, animation_index,
                                               action_index, motion_index, motion)
         IN  IF Len(motion_frames) = 1
             THEN << motion_frames[1] >>
             ELSE << merge_frame(motion_frames) >>

\* animations_list[animation_index][action_index]
ActionFrames(pairs, entity_type, animation_index, action_index) ==
    LET motions == pairs[animation_index + 1].actions[action_index + 1].motions
    IN  Flatten([m \in 1..Len(motions) |->
            MotionFrames(pairs, entity_type, animation_index, action_index, m - 1, motions[m])])

animations_list(pairs, entity_type) ==
    [p \in 1..Len(pairs) |->
        [a \in 1..Len(pairs[p].actions) |-> ActionFrames(pairs, entity_type, p - 1, a - 1)]]

\* generate: the frames of the pairs that have the action and the motion
Generate(list, action_index, motion_index) ==
    Flatten([p \in 1..Len(list) |->
        IF Len(list[p]) <= action_index THEN <<>>
        ELSE IF Len(list[p][action_index + 1]) <= motion_index THEN <<>>
        ELSE << list[p][action_index + 1][motion_index + 1] >>])

\* the frames of an action before they are brought to one size
MergedFrames(pairs, list, action_index) ==
    [m \in 1..Len(pairs[1].actions[action_index + 1].motions) |->
        merge_frame(Generate(list, action_index, m - 1))]
convert_coordinate_unflipped(coordinate, size) ==
    <<Rat(2 * coordinate[1] - size[1], size[1]),
      Rat(2 * coordinate[2], size[2])>>

\* the "normalized" coordinate of a point of a frame of the given size
convert_coordinate(coordinate, size) ==
    <<Rat(2 * coordinate[1] - size[1], size[1]),
      Rat(2 * size[2] - 2 * coordinate[2], size[2])>>

RECURSIVE FoldMax(_, _)
FoldMax(init, s) == IF s = <<>> THEN init ELSE FoldMax(Max2(init, Head(s)), Tail(s))

RECURSIVE FoldMin(_, _)
FoldMin(init, s) == IF s = <<>> THEN init ELSE FoldMin(Min2(init, Head(s)), Tail(s))

\* max_width, max_height before the offsets are added
NormMaxSize(frames) ==
    <<FoldMax(0, [i \in 1..Len(frames) |-> frames[i].size[1]]),
      FoldMax(0, [i \in 1..Len(frames) |-> frames[i].size[2]])>>

\* min_offset_x, min_offset_y
NormMinOffset(frames) ==
    <<FoldMin(I32_MAX, [i \in 1..Len(frames) |-> frames[i].offset[1]]),
      FoldMin(I32_MAX, [i \in 1..Len(frames) |-> frames[i].offset[2]])>>

\* max_offset_x, max_offset_y
NormMaxOffset(frames) ==
    <<FoldMax(0, [i \in 1..Len(frames) |-> frames[i].offset[1]]),
      FoldMax(0, [i \in 1..Len(frames) |-> frames[i].offset[2]])>>

NormShiftNoMargin(frames) == VSub(NormMaxOffset(frames), NormMinOffset(frames))

\* max_offset - min_offset + 2, the shift of every frame of the action
NormShift(frames) ==
    VAdd(VSub(NormMaxOffset(frames), NormMinOffset(frames)), <<2, 2>>)

\* a part of a frame that already has its new offset, size and remove_offset
NormalizePart(frame, part, shift) ==
    LET offset == VAdd(part.offset, shift)
        new_vector == VSub(part.size, <<1, 1>>)
        old_origin == VSub(frame.offset,
                           VDiv(VSub(VSub(frame.size, frame.remove_offset), <<1, 1>>), 2))
        new_origin == VSub(offset, VDiv(VSub(part.size, <<1, 1>>), 2))
        top_left == VSub(new_origin, old_origin)
        bottom_left == VAdd(top_left, <<0, new_vector[2]>>)
        top_right == VAdd(top_left, <<new_vector[1], 0>>)
        bottom_right == VAdd(top_left, new_vector)
    IN  [part EXCEPT
            !.offset = offset,
            !.texture_top_left = convert_coordinate(top_left, frame.size),
            !.texture_bottom_left = convert_coordinate(bottom_left, frame.size),
            !.texture_top_right = convert_coordinate(top_right, frame.size),
            !.texture_bottom_right = convert_coordinate(bottom_right, frame.size)]

NormFrameSizeOwn(frames, frame) == VAdd(frame.size, NormShift(frames))

\* the size every frame of the action gets
NormFrameSize(frames, frame) == VAdd(NormMaxSize(frames), NormShift(frames))

\* one frame of the action brought to the common size and offset
NormalizeFrame(frames, frame) ==
    LET shift == NormShift(frames)
        resized == [frame EXCEPT
                       !.offset = VAdd(NormMinOffset(frames), shift),
                       !.size = NormFrameSize(frames, frame),
                       !.remove_offset = shift]
    IN  [resized EXCEPT
            !.frameparts = [k \in 1..Len(frame.frameparts) |->
                               NormalizePart(resized, frame.frameparts[k], shift)]]

Normalize(frames) ==
    [i \in 1..Len(frames) |-> NormalizeFrame(frames, frames[i])]

\* the animation pairs of the files of an entity
AnimationPairs(entity_filename) ==
    [i \in 1..Len(entity_filename) |-> Assets(entity_filename[i])]

\* the reads of load that are out of range, given the pairs
PairsPanic(pairs, entity_type) ==
        \/ Len(pairs) = 0
        \/ \E p \in 1..Len(pairs) :
             \E a \in 1..Len(pairs[p].actions) :
               \E m \in 1..Len(pairs[p].actions[a].motions) :
                 LET motion == pairs[p].actions[a].motions[m]
                 IN  /\ motion.sprite_clip_count # 0
                     /\ \E c \in 1..Len(motion.sprite_clips) :
                          LET n == motion.sprite_clips[c].sprite_number
                          IN  /\ n # -1
                              /\ \/ n < 0
                                 \/ n >= Len(pairs[p].textures)
                                 \/ /\ AttachApplies(entity_type, motion, p - 1)
                                    /\ AttachPanics(pairs, a - 1, m - 1, motion)

\* load does not return: a loader result is unwrapped that is an error, or
\* a read is out of range
LoadPanics(entity_filename, entity_type) ==
    \/ LoaderFails(entity_filename)
    \/ PairsPanic(AnimationPairs(entity_filename), entity_type)

\* animations: per action of pair 0 the merged and normalized frames
LoadAnimations(pairs, entity_type) ==
    LET list == animations_list(pairs, entity_type)
    IN  [a \in 1..Len(pairs[1].actions) |->
            [frames |-> Normalize(MergedFrames(pairs, list, a - 1))]]

\* the AnimationData load builds; animation_pair holds the files whose
\* sprite and actions the pairs share
LoadData(entity_filename, entity_type) ==
    LET pairs == AnimationPairs(entity_filename)
        list == animations_list(pairs, entity_type)
    IN  [animation_pair |-> entity_filename,
         animations |-> LoadAnimations(pairs, entity_type),
         delays |-> pairs[1].delays,
         entity_type |-> entity_type]

(***************************************************************************)
(* The requests made to the loader: entity kind, files and hash.           *)
(***************************************************************************)
Request(entity_type, entity_filename, entity_hash) ==
    [entity_type |-> entity_type, entity_filename |-> entity_filename,
     entity_hash |-> entity_hash]

Requests ==
    { Request("Player", <<"body", "head">>, <<0, 1>>),
      Request("Player", <<"head", "body">>, <<0, 1>>),
      Request("Monster", <<"mob">>, <<7>>),
      Request("Npc", <<"npc">>, <<7>>),
      Request("Warp", <<"void">>, <<9>>),
      Request("Npc", <<"ghost">>, <<11>>),
      Request("Player", <<"body", "ghost">>, <<0, 1>>) }

\* what load returns for each request, computed once
LoadTable ==
    [r \in Requests |->
        IF LoadPanics(r.entity_filename, r.entity_type)
        THEN <<>>
        ELSE << LoadData(r.entity_filename, r.entity_type) >>]

\* the key of the cache
Hash(entity_type, entity_hash) ==
    IF entity_type = "Player"
    THEN PlayerKeyBase + entity_hash[1] * 2 + entity_hash[2]
    ELSE entity_hash[1]

InsertAlone(map, key, value) == [k \in {key} |-> value]

\* HashMap::insert
Insert(map, key, value) ==
    [k \in (DOMAIN map) \cup {key} |-> IF k = key THEN value ELSE map[k]]

CacheHitNever(map, key) == FALSE

\* self.cache.get(&hash) is Some
CacheHit(map, key) == key \in DOMAIN map

Init ==
    /\ cache = <<>>
    /\ loaded = <<>>
    /\ last = [op |-> "none"]
    /\ mFrames = <<>>
    /\ mGiven = <<>>
    /\ mResult = <<>>
    /\ nResult = <<>>
    /\ lIn = <<>>
    /\ lOut = <<>>
    /\ cIn = <<>>
    /\ cOut = <<>>

\* AnimationLoader::get, with the load it runs on a miss.  Calls are made one
\* at a time: last holds the outcome of the call until the caller takes it.
\* loaded counts the loads that completed per key; loader_calls counts the
\* calls this get made to the sprite and the action loader.
Get(r) ==
    LET hash == Hash(r.entity_type, r.entity_hash)
    IN  /\ last.op = "none"
        /\ IF CacheHit(cache, hash)
           THEN /\ last' = [op |-> "get", request |-> r, key |-> hash,
                            ran_load |-> FALSE, loader_calls |-> 0,
                            status |-> "ok", result |-> << cache[hash] >>]
                /\ UNCHANGED <<cache, loaded>>
           ELSE IF LoadTable[r] = <<>>
           THEN /\ last' = [op |-> "get", request |-> r, key |-> hash,
                            ran_load |-> TRUE,
                            loader_calls |-> LoaderCalls(r.entity_filename),
                            status |-> "panic", result |-> <<>>]
                /\ UNCHANGED <<cache, loaded>>
           ELSE /\ cache' = Insert(cache, hash, LoadTable[r][1])
                /\ loaded' = Insert(loaded, hash,
                                    IF hash \in DOMAIN loaded THEN loaded[hash] + 1 ELSE 1)
                /\ last' = [op |-> "get", request |-> r, key |-> hash,
                            ran_load |-> TRUE,
                            loader_calls |-> LoaderCalls(r.entity_filename),
                            status |-> "ok", result |-> << LoadTable[r][1] >>]
        /\ UNCHANGED <<mergeVars, clipVars, coordVars>>

(***************************************************************************)
(* AnimationData::render.                                                  *)
(***************************************************************************)
AnimationState(action, time, duration, factor) ==
    [action |-> action, time |-> time, duration |-> duration, factor |-> factor]

Times == {k * TimeUnit : k \in 0..MaxTicks}

Durations == {<<>>, <<20>>, <<70>>}

Factors == {<<>>, <<5>>}

AnimationStates ==
    {AnimationState(action, time, duration, factor) :
        action \in 0..MaxAction, time \in Times,
        duration \in Durations, factor \in Factors}

\* the time one frame is shown: delay * (factor / 5.0), or delay * 50.0
FrameFactor(animation_state, delay) ==
    IF animation_state.factor # <<>>
    THEN Rat(delay * animation_state.factor[1], 5)
    ELSE Rat(delay * 50, 1)

\* a * b in u32 (a below 2^31, b below 2^15): the limbs of the wrapped
\* product and whether the product is beyond a u32
WrappingMul(a, b) ==
    LET lo == (a % U16) * b
        hi == (a \div U16) * b + lo \div U16
    IN  [overflow |-> hi >= U16, hi |-> hi % U16, lo |-> lo % U16]

\* the u32 of limbs hi, lo divided by d (d from 2 to 2^15)
LimbDiv(hi, lo, d) == (hi \div d) * U16 + ((hi % d) * U16 + lo) \div d

\* frame_time, where it has a value: the u32 product wraps
FrameTime(animation_state, delay, frame_count) ==
    IF animation_state.duration # <<>>
    THEN LET product == WrappingMul(animation_state.time, frame_count)
         IN  LimbDiv(product.hi, product.lo, animation_state.duration[1])
    ELSE LET factor == FrameFactor(animation_state, delay)
         IN  (animation_state.time * factor[2]) \div factor[1]

\* frame_time as the build computes it: time * frames.len() as u32 is a u32
\* product, which panics with overflow checks and wraps without them, and
\* the division by duration panics when duration is 0
FrameTimeOutcome(animation_state, delay, frame_count, checked) ==
    LET overflow == /\ animation_state.duration # <<>>
                    /\ WrappingMul(animation_state.time, frame_count).overflow
    IN  IF overflow /\ checked
        THEN [status |-> "panic", at |-> "overflow", frame_time |-> -1]
        ELSE IF animation_state.duration # <<>> /\ animation_state.duration[1] = 0
        THEN [status |-> "panic", at |-> "duration", frame_time |-> -1]
        ELSE [status |-> "ok", at |-> "end",
              frame_time |-> FrameTime(animation_state, delay, frame_count)]

TimeIndexClamped(frame_time, frame_count) == Min2(frame_time, frame_count - 1)

\* time: the index of the frame at frame_time
TimeIndex(frame_time, frame_count) == frame_time % frame_count

SelectedIndexNoIdle(entity_type, animation_state, time) == time

\* the index of the frame that is drawn: the doridori animation of a player
\* is removed
SelectedIndex(entity_type, animation_state, time) ==
    IF entity_type = "Player" /\ animation_state.action = 0 THEN 0 ELSE time

\* aa % len
AnimationIndex(aa, length) == aa % length

\* whether a part of a frame can be looked up in the tables of the pairs
PartInRange(data, part) ==
    /\ part.animation_index < Len(data.animation_pair)
    /\ part.sprite_number
          < Len(Assets(data.animation_pair[part.animation_index + 1]).textures)

\* the number of parts drawn before the first part whose lookup fails
RECURSIVE DrawnCount(_, _, _)
DrawnCount(data, parts, k) ==
    IF k > Len(parts) THEN Len(parts)
    ELSE IF PartInRange(data, parts[k]) THEN DrawnCount(data, parts, k + 1)
    ELSE k - 1

\* the record render adds for part number index of the frame
DrawRecord(animation, frame, time, part, index) ==
    [texture |-> <<part.animation_index, part.sprite_number>>,
     texture_coordinates |-> <<part.texture_top_left, part.texture_bottom_left,
                               part.texture_top_right, part.texture_bottom_right>>,
     position |-> <<Rat(animation.frames[1].offset[1], 10),
                    Rat(animation.frames[1].offset[2]
                          + TruncDiv(animation.frames[time + 1].size[2] - 1, 2), 10)>>,
     size |-> frame.size,
     angle |-> part.angle,
     color |-> part.color,
     mirror |-> part.mirror,
     extra_depth_offset |-> Rat(index, 1000)]

RenderStopped(at, direction, aa) ==
    [status |-> "panic", at |-> at, direction |-> direction, aa |-> aa,
     delay_index |-> -1, animation_index |-> -1, frame_count |-> -1,
     frame_time |-> -1, time |-> -1, selected |-> -1,
     lookups |-> <<>>, emitted |-> <<>>]

\* render of one AnimationData: the values it computes, the table lookups
\* it makes for the parts, and the records it emits; checked tells whether
\* the build checks integer overflow
RenderResult(data, animation_state, camera_direction, head_direction, checked) ==
    LET direction == (camera_direction + head_direction) % Directions
        aa == animation_state.action * Directions + direction
    IN  IF Len(data.delays) = 0 THEN RenderStopped("delays", direction, aa)
        ELSE IF Len(data.animations) = 0 THEN RenderStopped("animations", direction, aa)
        ELSE
        LET delay_index == AnimationIndex(aa, Len(data.delays))
            delay == data.delays[delay_index + 1]
            animation_index == AnimationIndex(aa, Len(data.animations))
            animation == data.animations[animation_index + 1]
            frame_count == Len(animation.frames)
            outcome == FrameTimeOutcome(animation_state, delay, frame_count, checked)
        IN  IF outcome.status = "panic"
            THEN [RenderStopped(outcome.at, direction, aa) EXCEPT
                     !.delay_index = delay_index, !.animation_index = animation_index,
                     !.frame_count = frame_count]
            ELSE
            LET frame_time == outcome.frame_time
            IN  IF frame_count = 0
                THEN [RenderStopped("frames", direction, aa) EXCEPT
                         !.delay_index = delay_index, !.animation_index = animation_index,
                         !.frame_count = frame_count, !.frame_time = frame_time]
                ELSE
                LET time == TimeIndex(frame_time, frame_count)
                    selected == SelectedIndex(data.entity_type, animation_state, time)
                    frame == animation.frames[selected + 1]
                    parts == frame.frameparts
                    drawn == DrawnCount(data, parts, 1)
                IN  [status |-> IF drawn = Len(parts) THEN "ok" ELSE "panic",
                     at |-> IF drawn = Len(parts) THEN "end" ELSE "part",
                     direction |-> direction, aa |-> aa,
                     delay_index |-> delay_index, animation_index |-> animation_index,
                     frame_count |-> frame_count, frame_time |-> frame_time,
                     time |-> time, selected |-> selected,
                     lookups |-> [k \in 1..Min2(drawn + 1, Len(parts)) |->
                                    <<parts[k].animation_index, parts[k].sprite_number>>],
                     emitted |-> [k \in 1..drawn |->
                                    DrawRecord(animation, frame, time, parts[k], k - 1)]]

\* AnimationData::render on the AnimationData cached under a key, in a
\* build with or without overflow checks
Render(key, animation_state, camera_direction, head_direction, checked) ==
    /\ last.op = "none"
    /\ key \in DOMAIN cache
    /\ last' = [op |-> "render", key |-> key, state |-> animation_state,
                camera_direction |-> camera_direction,
                head_direction |-> head_direction,
                out |-> RenderResult(cache[key], animation_state,
                                     camera_direction, head_direction, checked)]
    /\ UNCHANGED <<cache, loaded, mergeVars, clipVars, coordVars>>

\* the call returns and the caller takes its result
Return ==
    /\ last.op # "none"
    /\ last' = [op |-> "none"]
    /\ UNCHANGED <<cache, loaded, mergeVars, clipVars, coordVars>>

Next ==
    \/ Return
    \/ \E r \in Requests : Get(r)
    \/ \E key \in DOMAIN cache, animation_state \in AnimationStates,
          camera_direction \in 0..(Directions - 1), head_direction \in 0..MaxHead,
          checked \in BOOLEAN :
            Render(key, animation_state, camera_direction, head_direction, checked)

Spec == Init /\ [][Next]_vars

(***************************************************************************)
(* render over the whole range of its timing inputs: elapsed times up to   *)
(* the largest the integers here hold, and the duration 0.                 *)
(***************************************************************************)
LongTimes == {I32_MAX - 1, I32_MAX}

LongDurations == {<<0>>, <<20>>, <<70>>}

\* the animation states of Spec, the ones with a long elapsed time, and the
\* ones with the duration 0
LongAnimationStates ==
    AnimationStates
    \cup {AnimationState(action, time, duration, factor) :
            action \in 0..MaxAction, time \in Times \cup LongTimes,
            duration \in LongDurations, factor \in Factors}

\* the entities drawn
TimingRequests ==
    { Request("Player", <<"body", "head">>, <<0, 1>>),
      Request("Npc", <<"npc">>, <<7>>) }

NextTiming ==
    \/ Return
    \/ \E r \in TimingRequests : Get(r)
    \/ \E key \in DOMAIN cache, animation_state \in LongAnimationStates,
          camera_direction \in {0, Directions - 1}, checked \in BOOLEAN :
            Render(key, animation_state, camera_direction, 0, checked)

SpecTiming == Init /\ [][NextTiming]_vars

(***************************************************************************)
(* Frames handed to merge_frame directly.                                  *)
(***************************************************************************)
PartOf(sprite, size, offset) ==
    [FramePartDefault EXCEPT !.animation_index = 0, !.sprite_number = sprite,
                             !.size = size, !.offset = offset]

\* a frame as load builds it for one clip: one part with the frame's geometry
SingletonFrame(w, x) ==
    [size |-> <<w, 1>>, top_left |-> <<0, 0>>, offset |-> <<x, 0>>,
     remove_offset |-> <<0, 0>>,
     frameparts |-> << PartOf(0, <<w, 1>>, <<x, 0>>) >>]

\* a frame that is itself the result of a merge: two parts
TwoPartFrame(w, x) ==
    [size |-> <<w, 2>>, top_left |-> <<0, 0>>, offset |-> <<x, -1>>,
     remove_offset |-> <<0, 0>>,
     frameparts |-> << PartOf(1, <<w, 2>>, <<x, -1>>), PartOf(2, <<1, 1>>, <<x, 0>>) >>]

\* the frame load builds for one clip of the given size and placement
ClipSizedFrame(size, offset) ==
    [size |-> size, top_left |-> <<0, 0>>, offset |-> offset,
     remove_offset |-> <<0, 0>>,
     frameparts |-> << PartOf(0, size, offset) >>]

\* frames of the sizes of real sprites: two 50x50 clips placed 10 left and
\* 10 right of the origin, and a 100x50 clip at the origin
SpriteSizedFrames ==
    { ClipSizedFrame(<<50, 50>>, <<-10, 0>>),
      ClipSizedFrame(<<50, 50>>, <<10, 0>>),
      ClipSizedFrame(<<100, 50>>, <<0, 0>>) }

FramePool ==
    {SingletonFrame(w, x) : w \in 1..MaxSize, x \in -MaxOff..MaxOff}
        \cup {TwoPartFrame(w, x) : w \in 1..MaxSize, x \in -MaxOff..MaxOff}
        \cup SpriteSizedFrames

InitMerge ==
    /\ mFrames = <<>>
    /\ mGiven = <<>>
    /\ mResult = <<>>
    /\ nResult = <<>>
    /\ cache = <<>>
    /\ loaded = <<>>
    /\ last = [op |-> "none"]
    /\ lIn = <<>>
    /\ lOut = <<>>
    /\ cIn = <<>>
    /\ cOut = <<>>

\* the caller adds a frame to the list it is going to merge
MergePush(f) ==
    /\ mResult = <<>>
    /\ nResult = <<>>
    /\ Len(mFrames) < MaxFrames
    /\ mFrames' = Append(mFrames, f)
    /\ UNCHANGED <<mGiven, mResult, nResult, loaderVars, clipVars, coordVars>>

\* Frame::merge_frame(&mut frames)
MergeApply ==
    /\ mResult = <<>>
    /\ nResult = <<>>
    /\ mGiven' = mFrames
    /\ mResult' = << merge_frame(mFrames) >>
    /\ mFrames' = merge_frame_slice(mFrames)
    /\ UNCHANGED <<nResult, loaderVars, clipVars, coordVars>>

\* the frames of one action are brought to one size, as load does it
NormalizeApply ==
    /\ mResult = <<>>
    /\ nResult = <<>>
    /\ mGiven' = mFrames
    /\ nResult' = << Normalize(mFrames) >>
    /\ mFrames' = Normalize(mFrames)
    /\ UNCHANGED <<mResult, loaderVars, clipVars, coordVars>>

NextMerge ==
    \/ \E f \in FramePool : MergePush(f)
    \/ MergeApply
    \/ NormalizeApply

SpecMerge == InitMerge /\ [][NextMerge]_vars

(***************************************************************************)
(* load run on a composition put together around one motion: the motion   *)
(* has clips of a small pool, sits behind lead motions without clips, and  *)
(* its pair comes after index pairs of a body with attach points.          *)
(***************************************************************************)
\* the images of the pair of the motion
ProbeTextures == << <<3, 2>>, <<1, 1>> >>

ClipPool ==
    { Clip(-1, <<9, 9>>),
      Clip(0, <<0, 0>>),
      [Clip(0, <<2, -3>>) EXCEPT !.zoom = << <<1, 2>> >>],
      [Clip(0, <<1, 0>>) EXCEPT !.zoom2 = << << <<3, 2>>, <<1, 1>> >> >>],
      Clip(1, <<-1, 1>>),
      [Clip(1, <<0, 0>>) EXCEPT !.zoom = << <<1, 2>> >>],
      [Clip(0, <<1, 1>>) EXCEPT !.sprite_type = << 1 >>] }

EntityTypes == {"Player", "Monster"}

AttachCounts == {<<>>, <<1>>, <<2>>}

\* the motion with its clips and as many attach points as it declares
ProbeMotion(clips, count) ==
    [sprite_clip_count |-> Len(clips), sprite_clips |-> clips,
     attach_point_count |-> count,
     attach_points |-> IF count = <<>> THEN <<>>
                       ELSE [i \in 1..count[1] |-> [position |-> <<i, 2>>]]]

\* the pair of the motion: one action, the lead motions, then the motion
ProbePair(in) ==
    [textures |-> ProbeTextures,
     palette_size |-> 1,
     actions |-> << [motions |-> [m \in 1..in.lead |-> Motion(<< >>)]
                                   \o << ProbeMotion(in.clips, in.count) >>] >>,
     delays |-> << 1 >>]

\* a body: one action whose motions have one clip and one attach point each
ParentPair ==
    [textures |-> << <<4, 6>> >>,
     palette_size |-> 1,
     actions |-> << [motions |-> [m \in 1..(MaxLead + 1) |->
                                    MotionAt(<< Clip(0, <<0, 0>>) >>, <<m, -3>>)]] >>,
     delays |-> << 1 >>]

\* animation_pairs of the composition
ProbePairs(in) == [i \in 1..in.index |-> ParentPair] \o << ProbePair(in) >>

\* every frame pushed to motion_frames while the only action of the pairs
\* is gone through, pair after pair and motion after motion
ClipFrames(pairs, entity_type) ==
    Flatten([p \in 1..Len(pairs) |->
        LET motions == pairs[p].actions[1].motions
        IN  Flatten([m \in 1..Len(motions) |->
                IF motions[m].sprite_clip_count = 0 THEN <<>>
                ELSE MotionClipFrames(pairs, entity_type, p - 1, 0, m - 1, motions[m])])])

\* what load computes on its way, for the only action of the composition
LoadTrace(pairs, entity_type) ==
    IF PairsPanic(pairs, entity_type)
    THEN [status |-> "panic", clip_frames |-> <<>>, list |-> <<>>,
          merged |-> <<>>, frames |-> <<>>]
    ELSE LET list == animations_list(pairs, entity_type)
             merged == MergedFrames(pairs, list, 0)
         IN  [status |-> "ok", clip_frames |-> ClipFrames(pairs, entity_type),
              list |-> list, merged |-> merged, frames |-> Normalize(merged)]

InitLoad ==
    /\ lIn \in [entity_type : EntityTypes, count : AttachCounts,
                index : 0..MaxPair, lead : 0..MaxLead, clips : {<<>>}]
    /\ lOut = <<>>
    /\ cIn = <<>>
    /\ cOut = <<>>
    /\ mFrames = <<>>
    /\ mGiven = <<>>
    /\ mResult = <<>>
    /\ nResult = <<>>
    /\ cache = <<>>
    /\ loaded = <<>>
    /\ last = [op |-> "none"]

\* the action file gets one more clip in the motion
LoadPushClip(clip) ==
    /\ lOut = <<>>
    /\ Len(lIn.clips) < MaxClips
    /\ lIn' = [lIn EXCEPT !.clips = Append(@, clip)]
    /\ UNCHANGED <<lOut, coordVars, mergeVars, loaderVars>>

\* AnimationLoader::load on the composition
LoadApply ==
    /\ lOut = <<>>
    /\ lOut' = << LoadTrace(ProbePairs(lIn), lIn.entity_type) >>
    /\ UNCHANGED <<lIn, coordVars, mergeVars, loaderVars>>

NextLoad ==
    \/ \E clip \in ClipPool : LoadPushClip(clip)
    \/ LoadApply

SpecLoad == InitLoad /\ [][NextLoad]_vars

(***************************************************************************)
(* convert_coordinate applied to a point and a size.                       *)
(***************************************************************************)
InitConvert ==
    /\ cIn \in [coordinate : (-1..MaxDim) \X (-1..MaxDim),
                size : (1..MaxDim) \X (1..MaxDim)]
    /\ cOut = <<>>
    /\ lIn = <<>>
    /\ lOut = <<>>
    /\ mFrames = <<>>
    /\ mGiven = <<>>
    /\ mResult = <<>>
    /\ nResult = <<>>
    /\ cache = <<>>
    /\ loaded = <<>>
    /\ last = [op |-> "none"]

ConvertApply ==
    /\ cOut = <<>>
    /\ cOut' = << convert_coordinate(cIn.coordinate, cIn.size) >>
    /\ UNCHANGED <<cIn, clipVars, mergeVars, loaderVars>>

NextConvert == ConvertApply

SpecConvert == InitConvert /\ [][NextConvert]_vars

(***************************************************************************)
(* load on compositions whose pairs differ in their numbers of actions and *)
(* motions: lIn holds the entity type and the pairs, lOut what load made   *)
(* of them.                                                                *)
(***************************************************************************)
\* an action file of the given actions over a sprite of one image
PairOf(actions) ==
    [textures |-> << <<4, 6>> >>,
     palette_size |-> 1,
     actions |-> actions,
     delays |-> [a \in 1..Len(actions) |-> 1]]

\* a motion of one clip with an attach point, and one without
AttachedMotion(m) == MotionAt(<< Clip(0, <<m, 0>>) >>, <<m, -3>>)

PlainMotion(m) == Motion(<< Clip(0, <<m, 0>>) >>)

\* action files of different shapes: one motion, two motions, two actions,
\* a motion without attach point, an action without motion
PairPool ==
    { PairOf(<< [motions |-> << AttachedMotion(0) >>] >>),
      PairOf(<< [motions |-> << AttachedMotion(0), AttachedMotion(1) >>] >>),
      PairOf(<< [motions |-> << AttachedMotion(0) >>],
                [motions |-> << AttachedMotion(1) >>] >>),
      PairOf(<< [motions |-> << PlainMotion(0) >>] >>),
      PairOf(<< [motions |-> << PlainMotion(0), AttachedMotion(1) >>] >>),
      PairOf(<< [motions |-> << >>] >>) }

\* load on the pairs: a panic, or the animations
PairsOutcome(pairs, entity_type) ==
    IF PairsPanic(pairs, entity_type)
    THEN [status |-> "panic", animations |-> <<>>]
    ELSE [status |-> "ok", animations |-> LoadAnimations(pairs, entity_type)]

InitPairs ==
    /\ lIn \in [entity_type : EntityTypes, pairs : {<< pair >> : pair \in PairPool}]
    /\ lOut = <<>>
    /\ cIn = <<>>
    /\ cOut = <<>>
    /\ mFrames = <<>>
    /\ mGiven = <<>>
    /\ mResult = <<>>
    /\ nResult = <<>>
    /\ cache = <<>>
    /\ loaded = <<>>
    /\ last = [op |-> "none"]

\* the composition gets one more file
PairsPush(pair) ==
    /\ lOut = <<>>
    /\ Len(lIn.pairs) <= MaxPair
    /\ lIn' = [lIn EXCEPT !.pairs = Append(@, pair)]
    /\ UNCHANGED <<lOut, coordVars, mergeVars, loaderVars>>

\* AnimationLoader::load on the composition
PairsLoad ==
    /\ lOut = <<>>
    /\ lOut' = << PairsOutcome(lIn.pairs, lIn.entity_type) >>
    /\ UNCHANGED <<lIn, coordVars, mergeVars, loaderVars>>

NextPairs ==
    \/ \E pair \in PairPool : PairsPush(pair)
    \/ PairsLoad

SpecPairs == InitPairs /\ [][NextPairs]_vars

(***************************************************************************)
(* Permutations of a list.                                                 *)
(***************************************************************************)
Perms(n) == {p \in [1..n -> 1..n] : \A i, j \in 1..n : p[i] = p[j] => i = j}

Permuted(s, p) == [i \in 1..Len(s) |-> s[p[i]]]

RECURSIVE SumSeq(_)
SumSeq(s) == IF s = <<>> THEN 0 ELSE Head(s) + SumSeq(Tail(s))

\* C3: all frames of a normalized action have the same size and the same
\* remove_offset, whatever the sizes and offsets of the frames were.
C3_NormalizerUniform ==
    nResult # <<>> =>
        \A i, j \in 1..Len(nResult[1]) :
            /\ nResult[1][i].size = nResult[1][j].size
            /\ nResult[1][i].remove_offset = nResult[1][j].remove_offset

C3_Witness ==
    /\ nResult # <<>>
    /\ Len(nResult[1]) >= 2
    /\ mGiven[1].size # mGiven[2].size
    /\ mGiven[1].offset # mGiven[2].offset

\* C4: merge_frame of an empty list returns a frame of size (1,1), offset
\* (0,0), zero top_left and remove_offset, and exactly one part, whose
\* animation_index and sprite_number are both usize::MAX.
C4_EmptyMerge ==
    (mResult # <<>> /\ Len(mGiven) = 0) =>
        LET f == mResult[1]
        IN  /\ f.size = <<1, 1>>
            /\ f.offset = <<0, 0>>
            /\ f.top_left = <<0, 0>>
            /\ f.remove_offset = <<0, 0>>
            /\ Len(f.frameparts) = 1
            /\ f.frameparts[1].animation_index = USIZE_MAX
            /\ f.frameparts[1].sprite_number = USIZE_MAX

C4_Witness == mResult # <<>> /\ Len(mGiven) = 0 /\ Len(mResult[1].frameparts) = 1

\* C5: for every non-empty list of frames and every permutation of it,
\* merge_frame returns the same size and the same offset.
C5_OrderIndependent ==
    (mResult # <<>> /\ Len(mGiven) > 0) =>
        \A p \in Perms(Len(mGiven)) :
            LET g == merge_frame(Permuted(mGiven, p))
            IN  g.size = mResult[1].size /\ g.offset = mResult[1].offset

C5_Witness ==
    /\ mResult # <<>>
    /\ Len(mGiven) >= 2
    /\ mGiven[1].offset # mGiven[2].offset
    /\ mResult[1].size # mGiven[1].size
    /\ mResult[1].size # mGiven[2].size

\* C6: for a non-empty list, the parts of the merged frame are the
\* concatenation of the parts of the given frames in list order: part k of
\* frame i is at position (parts of frames 1..i-1) + k, and the merged part
\* count is the sum of the part counts.
C6_PartsConcatenated ==
    (mResult # <<>> /\ Len(mGiven) > 0) =>
        LET parts == mResult[1].frameparts
            before(i) == SumSeq([j \in 1..(i - 1) |-> Len(mGiven[j].frameparts)])
        IN  /\ Len(parts) = SumSeq([j \in 1..Len(mGiven) |-> Len(mGiven[j].frameparts)])
            /\ \A i \in 1..Len(mGiven) :
                 \A k \in 1..Len(mGiven[i].frameparts) :
                    parts[before(i) + k] = mGiven[i].frameparts[k]

C6_Witness ==
    /\ mResult # <<>>
    /\ Len(mGiven) >= 2
    /\ Len(mGiven[1].frameparts) = 2
    /\ Len(mGiven[2].frameparts) = 1
    /\ Len(mResult[1].frameparts) = 3

\* the parts of a frame as render emits them
RecordsOf(frame) ==
    [k \in 1..Len(frame.frameparts) |->
        [texture |-> <<frame.frameparts[k].animation_index,
                       frame.frameparts[k].sprite_number>>,
         texture_coordinates |-> <<frame.frameparts[k].texture_top_left,
                                   frame.frameparts[k].texture_bottom_left,
                                   frame.frameparts[k].texture_top_right,
                                   frame.frameparts[k].texture_bottom_right>>,
         angle |-> frame.frameparts[k].angle,
         color |-> frame.frameparts[k].color,
         mirror |-> frame.frameparts[k].mirror]]

\* the records render emitted are those of the parts of the frame, in order,
\* up to the part at which render stopped, and all of them when it returned
EmittedFrom(out, frame) ==
    LET want == RecordsOf(frame)
    IN  /\ Len(out.emitted) <= Len(want)
        /\ out.status = "ok" => Len(out.emitted) = Len(want)
        /\ \A k \in 1..Len(out.emitted) :
              /\ out.emitted[k].texture = want[k].texture
              /\ out.emitted[k].texture_coordinates = want[k].texture_coordinates
              /\ out.emitted[k].angle = want[k].angle
              /\ out.emitted[k].color = want[k].color
              /\ out.emitted[k].mirror = want[k].mirror

\* the animation a render call selected
RenderedAnimation == cache[last.key].animations[last.out.animation_index + 1]

PlayerIdle ==
    cache[last.key].entity_type = "Player" /\ last.state.action = 0

\* C1: get runs load exactly when the key is absent from the cache; a get
\* that hits returns the cached AnimationData, calls no loader and leaves the
\* cache alone; a get that misses and succeeds has inserted what it returns
\* under the key; no key is ever loaded twice.
C1_LoadOnlyOnMiss ==
    [][ (last.op = "none" /\ last'.op = "get") =>
          LET hash == last'.key
          IN  /\ last'.ran_load = (hash \notin DOMAIN cache)
              /\ hash \in DOMAIN cache =>
                    /\ last'.result = << cache[hash] >>
                    /\ last'.loader_calls = 0
                    /\ cache' = cache
                    /\ loaded' = loaded
              /\ (hash \notin DOMAIN cache /\ last'.status = "ok") =>
                    /\ hash \in DOMAIN cache'
                    /\ cache'[hash] = last'.result[1]
                    /\ last'.loader_calls > 0
              /\ \A k \in DOMAIN loaded' : loaded'[k] <= 1 ]_vars

C1_Witness ==
    /\ last.op = "get"
    /\ ~last.ran_load
    /\ last.key \in DOMAIN loaded
    /\ loaded[last.key] = 1
    /\ last.result = << cache[last.key] >>

\* C2: a get never returns AnimationData built for another entity kind or
\* for other parts than the ones it was asked for.
C2_KeyIdentifiesComposition ==
    (last.op = "get" /\ last.status = "ok") =>
        /\ last.result[1].entity_type = last.request.entity_type
        /\ last.result[1].animation_pair = last.request.entity_filename

\* C7: for a player whose action is 0, render draws the parts of frame 0 of
\* the selected animation, whatever the time, the duration and the factor.
C7_PlayerIdle ==
    (last.op = "render" /\ last.out.time # -1 /\ PlayerIdle) =>
        /\ last.out.selected = 0
        /\ EmittedFrom(last.out, RenderedAnimation.frames[1])

C7_Witness ==
    /\ last.op = "render"
    /\ last.out.status = "ok"
    /\ PlayerIdle
    /\ last.out.time # 0
    /\ RecordsOf(RenderedAnimation.frames[last.out.time + 1])
          # RecordsOf(RenderedAnimation.frames[1])
    /\ Len(last.out.emitted) > 0

\* C8: outside the idle action of a player, render draws the frame whose
\* index is frame_time mod frame_count: the index is within 0..frame_count-1,
\* it differs from frame_time by a multiple of frame_count, and frame times
\* that lie a multiple of frame_count further on select the same frame.
C8_SelectionWraps ==
    (last.op = "render" /\ last.out.time # -1 /\ ~PlayerIdle) =>
        LET out == last.out
        IN  /\ out.selected \in 0..(out.frame_count - 1)
            /\ \E q \in 0..out.frame_time :
                  out.frame_time = q * out.frame_count + out.selected
            /\ \A k \in 1..3 :
                  TimeIndex(out.frame_time + k * out.frame_count, out.frame_count)
                      = out.selected
            /\ EmittedFrom(out, RenderedAnimation.frames[out.selected + 1])

C8_Witness ==
    /\ last.op = "render"
    /\ last.out.status = "ok"
    /\ ~PlayerIdle
    /\ last.out.frame_time >= 2 * last.out.frame_count
    /\ last.out.selected > 0
    /\ Len(last.out.emitted) > 0

\* C9: render looks the delay and the animation up at action * 8 +
\* (camera_direction + head_direction) mod 8, wrapped to the length of the
\* list, and the lookup does not fail, whatever the lengths of the lists.
C9_LookupWraps ==
    last.op = "render" =>
        LET out == last.out
            data == cache[last.key]
        IN  /\ out.direction = (last.camera_direction + last.head_direction) % Directions
            /\ out.aa = last.state.action * Directions + out.direction
            /\ out.at \notin {"delays", "animations"}
            /\ out.delay_index \in 0..(Len(data.delays) - 1)
            /\ \E q \in 0..out.aa : out.aa = q * Len(data.delays) + out.delay_index
            /\ out.animation_index \in 0..(Len(data.animations) - 1)
            /\ \E q \in 0..out.aa :
                  out.aa = q * Len(data.animations) + out.animation_index

\* C10: render never uses a sentinel index (usize::MAX) of a part to index
\* the tables of the animation pairs.
C10_SentinelNotIndexed ==
    last.op = "render" =>
        \A k \in 1..Len(last.out.lookups) :
            /\ last.out.lookups[k][1] # USIZE_MAX
            /\ last.out.lookups[k][2] # USIZE_MAX

(***************************************************************************)
(* The composition load was run on.                                        *)
(***************************************************************************)
\* a motion without an image: no clip, or only clips with sprite index -1
Degenerate(motion) ==
    \/ motion.sprite_clip_count = 0
    \/ \A c \in 1..Len(motion.sprite_clips) : motion.sprite_clips[c].sprite_number = -1

IsSentinel(part) == part.animation_index = USIZE_MAX

\* the pairs (1-based) whose only action has a motion number m (1-based)
PairsWithMotion(pairs, m) ==
    {p \in 1..Len(pairs) : m <= Len(pairs[p].actions[1].motions)}

\* the parts of the clips of motion m of all pairs, pair after pair
OwnParts(pairs, entity_type, m) ==
    Flatten([p \in 1..Len(pairs) |->
        IF p \notin PairsWithMotion(pairs, m) THEN <<>>
        ELSE LET clip_frames == MotionClipFrames(pairs, entity_type, p - 1, 0, m - 1,
                                                 pairs[p].actions[1].motions[m])
             IN  Flatten([c \in 1..Len(clip_frames) |-> clip_frames[c].frameparts])])

\* C11: load gives the action a frame for every motion index m; when the
\* motion m of every pair has no image the frame at m is the 1x1 placeholder,
\* and the frame at any other index is made of the clips of motion m.
C11_PlaceholderAtIndex ==
    (lOut # <<>> /\ lOut[1].status = "ok") =>
        LET pairs == ProbePairs(lIn)
            motions == pairs[1].actions[1].motions
            merged == lOut[1].merged
        IN  /\ Len(merged) = Len(motions)
            /\ \A m \in 1..Len(motions) :
                  IF \A p \in PairsWithMotion(pairs, m) :
                        Degenerate(pairs[p].actions[1].motions[m])
                  THEN merged[m] = PlaceholderFrame
                  ELSE SelectSeq(merged[m].frameparts, LAMBDA part : ~IsSentinel(part))
                          = OwnParts(pairs, lIn.entity_type, m)

\* the frames load has constructed: per clip, per motion of a pair, per
\* motion of the composition, and normalized
ConstructedFrames(trace) ==
    {trace.clip_frames[i] : i \in 1..Len(trace.clip_frames)}
        \cup UNION {{trace.list[p][1][m] : m \in 1..Len(trace.list[p][1])} :
                       p \in 1..Len(trace.list)}
        \cup {trace.merged[i] : i \in 1..Len(trace.merged)}
        \cup {trace.frames[i] : i \in 1..Len(trace.frames)}

\* C12: every frame load constructs (per clip, merged, normalized) is at
\* least 1 wide and 1 high, whatever the image sizes and the zoom factors.
C12_FrameSizesPositive ==
    (lOut # <<>> /\ lOut[1].status = "ok") =>
        \A frame \in ConstructedFrames(lOut[1]) :
            frame.size[1] >= 1 /\ frame.size[2] >= 1

\* C13: when the sprite or the action loader fails for a file of the
\* composition, get returns an error value to its caller and the cache is
\* what it was before the call.
C13_LoaderFailureIsError ==
    [][(/\ last.op = "none"
        /\ last'.op = "get"
        /\ last'.ran_load
        /\ LoaderFails(last'.request.entity_filename))
          => (last'.status = "error" /\ cache' = cache)]_vars

\* the clips of the motion that have an image
ImagedClips == SelectSeq(lIn.clips, LAMBDA clip : clip.sprite_number # -1)

\* the frames load made of the clips of the motion: those after the frames
\* of the bodies
ProbeClipFrames ==
    SubSeq(lOut[1].clip_frames, lIn.index * (MaxLead + 1) + 1, Len(lOut[1].clip_frames))

\* A_p - A_c: the first attach point of the motion of pair 0 at the index of
\* the motion, less the first attach point of the motion itself
AttachDelta ==
    VSub(ParentPair.actions[1].motions[lIn.lead + 1].attach_points[1].position,
         ProbeMotion(lIn.clips, lIn.count).attach_points[1].position)

\* C14: the offset of the part (and the frame) of a clip is C + (A_p - A_c)
\* exactly when the entity is a player, the motion declares one attach point
\* and its pair has index 1; in every other case it is the clip position C.
C14_AttachAlignment ==
    (lOut # <<>> /\ lOut[1].status = "ok") =>
        /\ Len(ProbeClipFrames) = Len(ImagedClips)
        /\ \A k \in 1..Len(ImagedClips) :
              LET C == ImagedClips[k].position
                  expected == IF /\ lIn.entity_type = "Player"
                                 /\ lIn.count = <<1>>
                                 /\ lIn.index = 1
                              THEN VAdd(C, AttachDelta)
                              ELSE C
              IN  /\ ProbeClipFrames[k].offset = expected
                  /\ ProbeClipFrames[k].frameparts[1].offset = expected

\* a head of a player was loaded and its clip was moved off its position
C14_Witness ==
    /\ lOut # <<>>
    /\ lOut[1].status = "ok"
    /\ lIn.entity_type = "Player" /\ lIn.count = <<1>> /\ lIn.index = 1
    /\ Len(ImagedClips) = 2
    /\ AttachDelta # <<0, 0>>
    /\ ProbeClipFrames[2].frameparts[1].offset
          = VAdd(ImagedClips[2].position, AttachDelta)

\* the composition whose motion lists only its clips with an image; the
\* clip count the motion declares is the same
ProbePairsImaged ==
    LET pairs == ProbePairs(lIn)
        p == lIn.index + 1
        m == lIn.lead + 1
    IN  [pairs EXCEPT ![p].actions[1].motions[m].sprite_clips = ImagedClips]

\* C15: a clip with sprite index -1 is dropped: everything load constructs
\* (the frames per clip, per motion, merged and normalized, with their parts,
\* sizes and offsets) is what it constructs when the motion lists only its
\* other clips, in their order.
C15_SkippedClipDropped ==
    (lOut # <<>> /\ lOut[1].status = "ok") =>
        /\ lOut[1] = LoadTrace(ProbePairsImaged, lIn.entity_type)
        /\ Len(ProbeClipFrames) = Len(ImagedClips)
        /\ \A k \in 1..Len(ImagedClips) :
              ProbeClipFrames[k].frameparts[1].sprite_number
                  = ImagedClips[k].sprite_number

\* a motion whose first clip has no image was loaded: its frame has the one
\* part of its second clip
C15_Witness ==
    /\ lOut # <<>>
    /\ lOut[1].status = "ok"
    /\ lIn.index = 0 /\ lIn.lead = 0
    /\ Len(lIn.clips) = 2
    /\ lIn.clips[1].sprite_number = -1
    /\ lIn.clips[2].sprite_number = 0
    /\ Len(lOut[1].merged[1].frameparts) = 1
    /\ lOut[1].merged[1].frameparts[1].sprite_number = 0
    /\ lOut[1].merged[1].offset = lIn.clips[2].position

(***************************************************************************)
(* Merges and normalisations of sprite-sized frames.                       *)
(***************************************************************************)
\* the two 50x50 frames at (-10,0) and (10,0) were merged, in either order
MergedTwoSquares ==
    /\ mResult # <<>>
    /\ Len(mGiven) = 2
    /\ {mGiven[1], mGiven[2]} = { ClipSizedFrame(<<50, 50>>, <<-10, 0>>),
                                  ClipSizedFrame(<<50, 50>>, <<10, 0>>) }

\* C16 as stated: merging two singleton frames of size 50x50 with offsets
\* (-10,0) and (10,0) yields a frame of size (100,50) and offset (0,0).
C16_MergeScenarioStated ==
    MergedTwoSquares =>
        mResult[1].size = <<100, 50>> /\ mResult[1].offset = <<0, 0>>

\* C16 amended: merging two singleton frames of size 50x50 with offsets
\* (-10,0) and (10,0) yields a frame of size (70,50) and offset (0,0): the
\* bounding box of the squares, whose corners are 20 apart.
C16_MergeScenario ==
    MergedTwoSquares =>
        mResult[1].size = <<70, 50>> /\ mResult[1].offset = <<0, 0>>

C16_Witness ==
    /\ MergedTwoSquares
    /\ mGiven[1].offset = <<-10, 0>>
    /\ Len(mResult[1].frameparts) = 2

\* two frames of size (100,50) and offset (0,0) were normalized as an action
NormalizedTwoWide ==
    /\ nResult # <<>>
    /\ mGiven = << ClipSizedFrame(<<100, 50>>, <<0, 0>>),
                   ClipSizedFrame(<<100, 50>>, <<0, 0>>) >>

\* C17 as stated: normalizing an action whose two merged frames both have
\* size (100,50) and offset (0,0) leaves the uniform size at (100,50) and
\* sets remove_offset to (2,2).
C17_NormalizeScenarioStated ==
    NormalizedTwoWide =>
        \A i \in 1..Len(nResult[1]) :
            /\ nResult[1][i].size = <<100, 50>>
            /\ nResult[1][i].remove_offset = <<2, 2>>

\* C17 amended: normalizing an action whose two merged frames both have
\* size (100,50) and offset (0,0) yields the uniform size (102,52), the
\* margin of 2 added, and remove_offset (2,2).
C17_NormalizeScenario ==
    NormalizedTwoWide =>
        \A i \in 1..Len(nResult[1]) :
            /\ nResult[1][i].size = <<102, 52>>
            /\ nResult[1][i].remove_offset = <<2, 2>>

C17_Witness ==
    /\ NormalizedTwoWide
    /\ Len(nResult[1]) = 2
    /\ nResult[1][2].offset = <<2, 2>>

\* C18: convert_coordinate maps the corner (0,0) of a frame of size (W,H),
\* W and H at least 1, to (-1, 2) and the corner (W,H) to (1, 0); for any
\* point, x' = (x/W - 0.5) * 2 and y' = 2 - (y/H) * 2 as exact rationals
\* (x' * W = 2x - W and y' * H = 2H - 2y, denominators positive).
C18_ConvertCorners ==
    cOut # <<>> =>
        LET x == cIn.coordinate[1]
            y == cIn.coordinate[2]
            W == cIn.size[1]
            H == cIn.size[2]
            out == cOut[1]
        IN  /\ (x = 0 /\ y = 0) => out = << <<-1, 1>>, <<2, 1>> >>
            /\ (x = W /\ y = H) => out = << <<1, 1>>, <<0, 1>> >>
            /\ out[1][2] > 0 /\ out[1][1] * W = (2 * x - W) * out[1][2]
            /\ out[2][2] > 0 /\ out[2][1] * H = (2 * H - 2 * y) * out[2][2]

\* the far corner of a 3x2 frame was converted
C18_Witness ==
    /\ cOut # <<>>
    /\ cIn.size = <<3, 2>>
    /\ cIn.coordinate = <<3, 2>>
    /\ cOut[1] = << <<1, 1>>, <<0, 1>> >>

\* the frame a render call selected
RenderedFrame == RenderedAnimation.frames[last.out.selected + 1]

\* whether rational p is less than rational q (denominators positive)
RatLess(p, q) == p[1] * q[2] < q[1] * p[2]

\* C19: render emits exactly one record per part of the selected frame, in
\* the stored order of the parts: record i has the angle, the color and the
\* mirror flag of part i, and its extra depth offset is 0.001 * i, strictly
\* increasing along the records.
C19_OneRecordPerPart ==
    (last.op = "render" /\ last.out.at \in {"part", "end"}) =>
        LET parts == RenderedFrame.frameparts
            emitted == last.out.emitted
        IN  /\ Len(emitted) = Len(parts)
            /\ \A k \in 1..Len(emitted) :
                  /\ emitted[k].angle = parts[k].angle
                  /\ emitted[k].color = parts[k].color
                  /\ emitted[k].mirror = parts[k].mirror
                  /\ emitted[k].extra_depth_offset[1] * 1000
                        = (k - 1) * emitted[k].extra_depth_offset[2]
                  /\ k > 1 => RatLess(emitted[k - 1].extra_depth_offset,
                                      emitted[k].extra_depth_offset)

\* C20: no mutation after construction: in every step each key of the cache
\* stays in the cache with the AnimationData it has (so the data under a key
\* is the data first inserted and no entry is removed), a get that hits
\* leaves the whole cache as it is, and so does render.
C20_NoMutationAfterConstruction ==
    [][/\ \A key \in DOMAIN cache :
             key \in DOMAIN cache' /\ cache'[key] = cache[key]
       /\ (last'.op = "get" /\ ~last'.ran_load) => cache' = cache
       /\ last'.op = "render" => cache' = cache]_vars

\* a get hit a cache of three entries and returned the entry of its key
C20_Witness ==
    /\ last.op = "get"
    /\ ~last.ran_load
    /\ Cardinality(DOMAIN cache) = 3
    /\ last.result = << cache[last.key] >>

(***************************************************************************)
(* The frames of an action handed to the normalizer.                       *)
(***************************************************************************)
\* the true maximum and minimum of the offsets of the frames
TrueMaxOffset(frames) ==
    <<SetMax({frames[i].offset[1] : i \in 1..Len(frames)}),
      SetMax({frames[i].offset[2] : i \in 1..Len(frames)})>>

TrueMinOffset(frames) ==
    <<SetMin({frames[i].offset[1] : i \in 1..Len(frames)}),
      SetMin({frames[i].offset[2] : i \in 1..Len(frames)})>>

\* C21: the normalizer uses the true maximum and minimum of the offsets of
\* the frames of the action, also when all offsets are negative: every
\* frame gets the offset (true maximum + 2) and the remove_offset
\* (true maximum - true minimum + 2).
C21_TrueExtrema ==
    (nResult # <<>> /\ Len(mGiven) > 0) =>
        \A i \in 1..Len(nResult[1]) :
            /\ nResult[1][i].offset = VAdd(TrueMaxOffset(mGiven), <<2, 2>>)
            /\ nResult[1][i].remove_offset
                  = VAdd(VSub(TrueMaxOffset(mGiven), TrueMinOffset(mGiven)), <<2, 2>>)

\* local_top_left of a part of a normalized frame
LocalTopLeft(frame, part) ==
    VSub(VSub(part.offset, VDiv(VSub(part.size, <<1, 1>>), 2)),
         VSub(frame.offset,
              VDiv(VSub(VSub(frame.size, frame.remove_offset), <<1, 1>>), 2)))

\* C22: the corners of the texture quad of every part of a normalized frame
\* are convert_coordinate, with the uniform size of the frame, of
\* local_top_left, local_top_left + (0, part.size.y),
\* local_top_left + (part.size.x, 0) and local_top_left + part.size.
C22_QuadCorners ==
    nResult # <<>> =>
        \A i \in 1..Len(nResult[1]) :
            LET frame == nResult[1][i]
            IN  \A k \in 1..Len(frame.frameparts) :
                  LET part == frame.frameparts[k]
                      top_left == LocalTopLeft(frame, part)
                  IN  /\ part.texture_top_left = convert_coordinate(top_left, frame.size)
                      /\ part.texture_bottom_left
                            = convert_coordinate(VAdd(top_left, <<0, part.size[2]>>), frame.size)
                      /\ part.texture_top_right
                            = convert_coordinate(VAdd(top_left, <<part.size[1], 0>>), frame.size)
                      /\ part.texture_bottom_right
                            = convert_coordinate(VAdd(top_left, part.size), frame.size)

(***************************************************************************)
(* Rectangles of frames and parts.                                         *)
(***************************************************************************)
\* the rectangle of a frame or a part: its top-left corner and its extent
RectOf(x) == [corner |-> VSub(x.offset, VDiv(VSub(x.size, <<1, 1>>), 2)),
              extent |-> x.size]

\* the smallest rectangle that contains the rectangles of the parts
PartsRect(parts) ==
    LET left == SetMin({RectOf(parts[k]).corner[1] : k \in 1..Len(parts)})
        top == SetMin({RectOf(parts[k]).corner[2] : k \in 1..Len(parts)})
        right == SetMax({RectOf(parts[k]).corner[1] + parts[k].size[1] : k \in 1..Len(parts)})
        bottom == SetMax({RectOf(parts[k]).corner[2] + parts[k].size[2] : k \in 1..Len(parts)})
    IN  [corner |-> <<left, top>>, extent |-> <<right - left, bottom - top>>]

\* the frames of the motions: per pair, and of the composition
MotionLevelFrames(trace) ==
    UNION {{trace.list[p][1][m] : m \in 1..Len(trace.list[p][1])} :
              p \in 1..Len(trace.list)}
        \cup {trace.merged[i] : i \in 1..Len(trace.merged)}

\* one singleton frame per part, as load builds it for a clip
SingletonsOf(parts) ==
    [k \in 1..Len(parts) |->
        [size |-> parts[k].size, top_left |-> <<0, 0>>, offset |-> parts[k].offset,
         remove_offset |-> <<0, 0>>, frameparts |-> << parts[k] >>]]

\* C23: before normalization the rectangle of the frame of a motion (corner
\* offset - (size - (1,1)) / 2, extent size) is the smallest rectangle that
\* contains the rectangles of all its parts, and its size and offset are
\* those of one merge of the singleton frames of its parts.
C23_FrameIsBoundingBox ==
    (lOut # <<>> /\ lOut[1].status = "ok") =>
        \A frame \in MotionLevelFrames(lOut[1]) :
            /\ RectOf(frame) = PartsRect(frame.frameparts)
            /\ frame.size = merge_frame(SingletonsOf(frame.frameparts)).size
            /\ frame.offset = merge_frame(SingletonsOf(frame.frameparts)).offset

\* the frame of a motion was merged of the frame of the body and of the
\* merged frame of two clips of different sizes
C23_Witness ==
    /\ lOut # <<>>
    /\ lOut[1].status = "ok"
    /\ lIn.index = 1 /\ lIn.lead = 0
    /\ Len(ImagedClips) = 2
    /\ ImagedClips[1].sprite_number # ImagedClips[2].sprite_number
    /\ Len(lOut[1].merged[1].frameparts) = 3
    /\ Len(lOut[1].list[2][1][1].frameparts) = 2

\* C24: the cross-pair merge is aligned by motion index: the frame at index
\* m of the action holds, pair after pair, exactly the parts built from the
\* clips of motion m of every pair that has a motion m, and no part of
\* another motion, also when an earlier motion of a pair has no clip.
C24_AlignedByMotion ==
    (lOut # <<>> /\ lOut[1].status = "ok") =>
        \A m \in 1..Len(lOut[1].merged) :
            SelectSeq(lOut[1].merged[m].frameparts, LAMBDA part : ~IsSentinel(part))
                = OwnParts(ProbePairs(lIn), lIn.entity_type, m)

\* C25: the sprite_number of the part of a clip that declares the
\* direct-color sprite type (1) is the sprite index of the clip plus the
\* number of palette images of the sprite; for any other clip it is the
\* sprite index of the clip.
C25_DirectColorOffset ==
    (lOut # <<>> /\ lOut[1].status = "ok") =>
        \A k \in 1..Len(ImagedClips) :
            ProbeClipFrames[k].frameparts[1].sprite_number
                = IF ImagedClips[k].sprite_type = << 1 >>
                  THEN ImagedClips[k].sprite_number + ProbePair(lIn).palette_size
                  ELSE ImagedClips[k].sprite_number

(***************************************************************************)
(* C26                                                                     *)
(***************************************************************************)
\* floor(a * b / d) over the integers, by limbs (a below 2^31, b and d below
\* 2^15, d positive)
FloorMulDiv(a, b, d) ==
    LET lo == (a % U16) * b
        hi == (a \div U16) * b + lo \div U16
    IN  (hi \div d) * U16 + ((hi % d) * U16 + (lo % U16)) \div d

\* a render with a duration that came to compute frame_time
TimedRender ==
    /\ last.op = "render"
    /\ last.state.duration # <<>>
    /\ last.out.at \notin {"delays", "animations"}

\* C26: with a duration present, frame_time is floor(elapsed * frame_count /
\* duration) for every elapsed time, frame count and duration: no overflow
\* and no division by zero changes the result
C26_FrameTimeIsFloor ==
    TimedRender =>
        /\ last.out.at \notin {"overflow", "duration"}
        /\ last.out.frame_time =
              FloorMulDiv(last.state.time, last.out.frame_count,
                          last.state.duration[1])

\* the same where the duration is positive and the product fits a u32
C26_FrameTimeIsFloorInRange ==
    (/\ TimedRender
     /\ last.state.duration[1] > 0
     /\ ~WrappingMul(last.state.time, last.out.frame_count).overflow) =>
        /\ last.out.at \notin {"overflow", "duration"}
        /\ last.out.frame_time =
              FloorMulDiv(last.state.time, last.out.frame_count,
                          last.state.duration[1])

\* a render of a long elapsed time whose product fits
C26_InRangeReached ==
    /\ TimedRender
    /\ last.state.time = I32_MAX
    /\ last.out.frame_count = 2
    /\ last.state.duration = <<20>>
    /\ last.out.frame_time = 214748364

\* the wrapped product is taken for the frame time
C26_WrapReached ==
    /\ TimedRender
    /\ last.state.time = I32_MAX
    /\ last.out.frame_count = 3
    /\ last.state.duration = <<20>>
    /\ last.out.frame_time = 107374182

(***************************************************************************)
(* C27                                                                     *)
(***************************************************************************)
RatLeq(a, b) == a[1] * b[2] <= b[1] * a[2]

\* a texture coordinate within x in [-1, 1] and y in [0, 2]
InQuadRange(point) ==
    /\ RatLeq(Rat(-1, 1), point[1]) /\ RatLeq(point[1], Rat(1, 1))
    /\ RatLeq(Rat(0, 1), point[2]) /\ RatLeq(point[2], Rat(2, 1))

\* the local rectangle of the part lies inside the frame, and so do the
\* four corners of its texture quad
PartInsideFrame(frame, part) ==
    LET top_left == LocalTopLeft(frame, part)
    IN  /\ top_left[1] >= 0 /\ top_left[2] >= 0
        /\ top_left[1] + part.size[1] <= frame.size[1]
        /\ top_left[2] + part.size[2] <= frame.size[2]
        /\ InQuadRange(part.texture_top_left)
        /\ InQuadRange(part.texture_bottom_left)
        /\ InQuadRange(part.texture_top_right)
        /\ InQuadRange(part.texture_bottom_right)

\* C27: after normalization the local rectangle of every part lies inside
\* its frame: local_top_left >= 0 and local_top_left + part.size <=
\* frame.size in both components, and the four corners of the texture quad
\* are within x in [-1, 1] and y in [0, 2].
C27_PartsInsideFrame ==
    (lOut # <<>> /\ lOut[1].status = "ok") =>
        \A i \in 1..Len(lOut[1].frames) :
            \A k \in 1..Len(lOut[1].frames[i].frameparts) :
                PartInsideFrame(lOut[1].frames[i], lOut[1].frames[i].frameparts[k])

\* the same for the loads whose clips all give a frame at least 1 wide and
\* 1 high
C27_PartsInsideFrameOfPositiveClips ==
    (/\ lOut # <<>> /\ lOut[1].status = "ok"
     /\ \A c \in 1..Len(lOut[1].clip_frames) :
            lOut[1].clip_frames[c].size[1] >= 1 /\ lOut[1].clip_frames[c].size[2] >= 1) =>
        \A i \in 1..Len(lOut[1].frames) :
            \A k \in 1..Len(lOut[1].frames[i].frameparts) :
                PartInsideFrame(lOut[1].frames[i], lOut[1].frames[i].frameparts[k])

\* the same for the frames of an action given to the normalizer directly
C27_PartsInsideFrameOfList ==
    nResult # <<>> =>
        \A i \in 1..Len(nResult[1]) :
            \A k \in 1..Len(nResult[1][i].frameparts) :
                PartInsideFrame(nResult[1][i], nResult[1][i].frameparts[k])

(***************************************************************************)
(* C28                                                                     *)
(***************************************************************************)
\* the lists render takes a remainder by are not empty
ListsNonEmpty(data) ==
    /\ Len(data.animations) >= 1
    /\ Len(data.delays) >= 1
    /\ \A a \in 1..Len(data.animations) : Len(data.animations[a].frames) >= 1

\* every action of every file of the composition has a motion, and the
\* first file has an action
FullActionTable(entity_filename) ==
    /\ Len(Assets(entity_filename[1]).actions) >= 1
    /\ \A p \in 1..Len(entity_filename) :
          \A a \in 1..Len(Assets(entity_filename[p]).actions) :
              Len(Assets(entity_filename[p]).actions[a].motions) >= 1

\* C28: every Animation that load stores has at least one frame, and the
\* animations and the delays are not empty, so that no remainder in render
\* is a division by zero, whatever the action table, an action without
\* motions included.
C28_AnimationsNonEmpty ==
    /\ \A key \in DOMAIN cache : ListsNonEmpty(cache[key])
    /\ last.op = "render" => last.out.at \notin {"delays", "animations", "frames"}

\* the same for the compositions whose actions all have a motion
C28_NonEmptyOfFullTables ==
    /\ \A key \in DOMAIN cache :
          FullActionTable(cache[key].animation_pair) => ListsNonEmpty(cache[key])
    /\ (last.op = "render" /\ FullActionTable(cache[last.key].animation_pair)) =>
          last.out.at \notin {"delays", "animations", "frames"}

\* a render of the action without motions
C28_EmptyAnimationRendered ==
    /\ last.op = "render"
    /\ Len(cache[last.key].animations) = 2
    /\ last.out.at = "frames"

(***************************************************************************)
(* C29                                                                     *)
(***************************************************************************)
\* the pairs (0-based) that have a motion at the indices (0-based)
PairsAt(pairs, action_index, motion_index) ==
    SelectSeq([p \in 1..Len(pairs) |-> p - 1],
              LAMBDA i : /\ action_index < Len(pairs[i + 1].actions)
                         /\ motion_index <
                               Len(pairs[i + 1].actions[action_index + 1].motions))

\* the pairs the parts of a frame come from
PartPairs(frame) ==
    [k \in 1..Len(frame.frameparts) |-> frame.frameparts[k].animation_index]

\* the frames are merged from the pairs that have the indices
MergeSkipsMissing ==
    /\ Len(lOut[1].animations) = Len(lIn.pairs[1].actions)
    /\ \A a \in 1..Len(lOut[1].animations) :
          /\ Len(lOut[1].animations[a].frames) = Len(lIn.pairs[1].actions[a].motions)
          /\ \A m \in 1..Len(lOut[1].animations[a].frames) :
                PartPairs(lOut[1].animations[a].frames[m]) = PairsAt(lIn.pairs, a - 1, m - 1)

\* pair 1 has every action and motion within pair 0, and pair 0 has an
\* attach point wherever pair 1 has one
HeadFitsBody ==
    Len(lIn.pairs) >= 2 =>
        /\ Len(lIn.pairs[2].actions) <= Len(lIn.pairs[1].actions)
        /\ \A a \in 1..Len(lIn.pairs[2].actions) :
              /\ Len(lIn.pairs[2].actions[a].motions) <= Len(lIn.pairs[1].actions[a].motions)
              /\ \A m \in 1..Len(lIn.pairs[2].actions[a].motions) :
                    has_attach_point(lIn.pairs[2].actions[a].motions[m]) =>
                        Len(lIn.pairs[1].actions[a].motions[m].attach_points) >= 1

\* C29: load makes no out-of-range access on pairs that differ in shape: a
\* pair with fewer actions or motions than pair 0 is skipped at the missing
\* indices of the cross-pair merge, and the attach point resolution of a
\* Player's pair 1 reads pair 0 only where pair 0 has the action, the
\* motion and an attach point.
C29_MismatchTolerated ==
    lOut # <<>> => (lOut[1].status = "ok" /\ MergeSkipsMissing)

\* the same where no attach point is resolved, or pair 1 fits pair 0
C29_ToleratedWhereHeadFits ==
    (lOut # <<>> /\ (lIn.entity_type # "Player" \/ HeadFitsBody)) =>
        (lOut[1].status = "ok" /\ MergeSkipsMissing)

\* a load of a Monster whose pair 1 has more motions than pair 0
C29_SkipReached ==
    /\ lOut # <<>>
    /\ lIn.entity_type = "Monster"
    /\ Len(lIn.pairs) = 2
    /\ Len(lIn.pairs[1].actions[1].motions) = 2
    /\ Len(lIn.pairs[2].actions[1].motions) = 1
    /\ lOut[1].status = "ok"
    /\ PartPairs(lOut[1].animations[1].frames[2]) = <<0>>

(***************************************************************************)
(* C30                                                                     *)
(***************************************************************************)
\* the motion has clips and exactly one of them is retained
OneRetainedClip ==
    /\ lOut # <<>> /\ lOut[1].status = "ok"
    /\ Len(lIn.clips) >= 1
    /\ Len(ImagedClips) = 1

\* the frame load pushed to action_frames for the motion
ShortcutFrame ==
    LET action_frames == lOut[1].list[lIn.index + 1][1]
    IN  action_frames[Len(action_frames)]

\* C30: for a motion with exactly one retained clip the frame that load
\* pushes unchanged has the size, the offset and the part list that
\* merge_frame gives for the list of that one frame.
C30_ShortcutIsMerge ==
    OneRetainedClip =>
        LET merged == merge_frame(ProbeClipFrames)
        IN  /\ Len(lOut[1].list[lIn.index + 1][1]) = 1
            /\ ShortcutFrame = ProbeClipFrames[1]
            /\ ShortcutFrame.size = merged.size
            /\ ShortcutFrame.offset = merged.offset
            /\ ShortcutFrame.frameparts = merged.frameparts

\* a motion of a skipped clip and a zoomed clip off the origin was loaded
C30_Witness ==
    /\ OneRetainedClip
    /\ Len(lIn.clips) = 2
    /\ ImagedClips[1].position = <<2, -3>>
    /\ ShortcutFrame.offset = <<2, -3>>
    /\ ShortcutFrame.size = <<1, 1>>

====
